---- MODULE Spec2Model ----
(***************************************************************************)
(* Model of syn's `spanned` module (src/src/spanned.rs): the blanket       *)
(* `Spanned::span` implementation and the private `join_spans` function.   *)
(*                                                                         *)
(* A token is represented by the one span it carries.  A span is a record  *)
(* [file, lo, hi]; its Debug rendering is the character sequence           *)
(* "bytes(lo..hi)", which is what `join_spans` inspects with `ends_with`.  *)
(* `Span::join` (proc_macro2) yields the smallest span enclosing both      *)
(* arguments and refuses (None) when they lie in different files.          *)
(* An Option is a sequence of length 0 (None) or 1 (Some).                 *)
(***************************************************************************)
EXTENDS Integers, Sequences, FiniteSets, TLC

VARIABLES tokens, procmacro2_semver_exempt, pc, iter, joined, result, joinLog

vars == <<tokens, procmacro2_semver_exempt, pc, iter, joined, result, joinLog>>

\* Longest token stream explored.
MaxLen == 3
\* Number of distinct source files tokens may come from.
NumFiles == 2

\* Byte offsets used for span endpoints.
Offsets == {0, 5, 10, 15}

\* The extents <<lo, hi>> tokens are drawn from; <<0, 0>> is the empty range.
Extents == {<<0, 0>>, <<0, 10>>, <<5, 10>>, <<10, 15>>}

None == <<>>
Some(x) == <<x>>

\* Span::call_site(): the zero span of the unspecified file 0.
CallSite == [file |-> 0, lo |-> 0, hi |-> 0]

Span == {s \in [file : 0..NumFiles, lo : Offsets, hi : Offsets] : s.lo <= s.hi}

\* The spans a token can carry: an extent in a source file, or the empty
\* range of any file (file 0, the unspecified one, has nothing else).
TokenSpan == {s \in Span : /\ <<s.lo, s.hi>> \in Extents
                           /\ s.file = 0 => <<s.lo, s.hi>> = <<0, 0>>}

Sp(f, l, h) == [file |-> f, lo |-> l, hi |-> h]

TokenStream == UNION {[1..n -> TokenSpan] : n \in 0..MaxLen}

----------------------------------------------------------------------------
(* format!("{:?}", span) and str::ends_with *)

DigitChar == <<"0", "1", "2", "3", "4", "5", "6", "7", "8", "9">>

RECURSIVE Digits(_)
Digits(n) == IF n < 10 THEN <<DigitChar[n + 1]>>
             ELSE Digits(n \div 10) \o <<DigitChar[(n % 10) + 1]>>

format_debug(span) ==
    <<"b", "y", "t", "e", "s", "(">> \o Digits(span.lo) \o <<".", ".">>
        \o Digits(span.hi) \o <<")">>

EmptyRangePattern == <<"b", "y", "t", "e", "s", "(", "0", ".", ".", "0", ")">>

ends_with(s, pat) ==
    /\ Len(s) >= Len(pat)
    /\ SubSeq(s, Len(s) - Len(pat) + 1, Len(s)) = pat

\* Mutant: the closure keeps every span.
filter_map_closure_keep_all(tt) == Some(tt)

\* Mutant: the closure only looks at the closing "0)" of the rendering.
filter_map_closure_short_suffix(tt) ==
    IF ends_with(format_debug(tt), <<"0", ")">>) THEN None ELSE Some(tt)

\* The closure passed to filter_map: None for a span whose Debug rendering
\* ends with "bytes(0..0)", Some(span) otherwise.
filter_map_closure(tt) ==
    LET span == tt
        debug == format_debug(span)
    IN IF ends_with(debug, EmptyRangePattern) THEN None ELSE Some(span)

\* Mutant: an exhausted iterator yields its last item again.
RECURSIVE iter_next_repeat_last(_, _)
iter_next_repeat_last(toks, pos) ==
    IF pos > Len(toks) THEN Len(toks)
    ELSE IF filter_map_closure(toks[pos]) # None THEN pos
    ELSE iter_next_repeat_last(toks, pos + 1)

\* Mutant: the iterator yields the next token without filtering.
iter_next_unfiltered(toks, pos) ==
    IF pos > Len(toks) THEN 0 ELSE pos

\* iter.next() of the lazy filter_map iterator positioned at `pos`: the index
\* of the next token the closure keeps, 0 when the stream is exhausted.
RECURSIVE iter_next(_, _)
iter_next(toks, pos) ==
    IF pos > Len(toks) THEN 0
    ELSE IF filter_map_closure(toks[pos]) # None THEN pos
    ELSE iter_next(toks, pos + 1)

Min(a, b) == IF a < b THEN a ELSE b
Max(a, b) == IF a > b THEN a ELSE b

\* joined.join(next)
join(a, b) ==
    IF a.file # b.file THEN None
    ELSE Some([file |-> a.file, lo |-> Min(a.lo, b.lo), hi |-> Max(a.hi, b.hi)])

\* Mutant: a successful join replaces the accumulator by the joined-in span.
fold_body_take_next(acc, next) ==
    IF join(acc, next) # None THEN next ELSE acc

\* Mutant: a refused join resets the accumulator to the refused span.
fold_body_reset_on_refusal(acc, next) ==
    LET r == join(acc, next) IN IF r # None THEN r[1] ELSE next

\* Body of the `for next in iter` loop: the new value of `joined`.
fold_body(acc, next) ==
    LET r == join(acc, next) IN IF r # None THEN r[1] ELSE acc

\* Mutant: the first-only block returns the last span that was seen.
first_only_take_last(acc, toks) ==
    IF iter_next(toks, Len(toks)) # 0 THEN toks[Len(toks)] ELSE acc

\* The not(procmacro2_semver_exempt) block: joined = joined.
first_only(acc, toks) == acc

----------------------------------------------------------------------------
(* join_spans as a function of the token stream, built from the same steps. *)

RECURSIVE fold_from(_, _, _)
fold_from(toks, pos, acc) ==
    LET i == iter_next(toks, pos)
    IN IF i = 0 THEN acc ELSE fold_from(toks, i + 1, fold_body(acc, toks[i]))

join_spans(toks, exempt) ==
    LET i == iter_next(toks, 1)
    IN IF i = 0 THEN CallSite
       ELSE IF exempt THEN fold_from(toks, i + 1, toks[i])
       ELSE first_only(toks[i], toks)

----------------------------------------------------------------------------
(* The computation of one span() call, step by step. *)

Init ==
    /\ tokens \in TokenStream
    /\ procmacro2_semver_exempt \in BOOLEAN
    /\ pc = "start"
    /\ iter = 1
    /\ joined = CallSite
    /\ result = CallSite
    /\ joinLog = <<>>

\* let mut joined = match iter.next() { Some(span) => span,
\*                                      None => return Span::call_site() };
First ==
    /\ pc = "start"
    /\ LET i == iter_next(tokens, iter)
       IN IF i = 0
          THEN /\ result' = CallSite
               /\ pc' = "done"
               /\ iter' = Len(tokens) + 1
               /\ UNCHANGED joined
          ELSE /\ joined' = tokens[i]
               /\ iter' = i + 1
               /\ pc' = "strategy"
               /\ UNCHANGED result
    /\ UNCHANGED <<tokens, procmacro2_semver_exempt, joinLog>>

\* One iteration of `for next in iter { if let Some(span) = joined.join(next)
\* { joined = span; } }`.
FoldStep ==
    /\ pc = "strategy"
    /\ procmacro2_semver_exempt
    /\ iter_next(tokens, iter) # 0
    /\ Len(joinLog) <= MaxLen      \* one join per token at most
    /\ LET i == iter_next(tokens, iter)
           next == tokens[i]
       IN /\ joined' = fold_body(joined, next)
          /\ joinLog' = Append(joinLog,
                 [acc |-> joined, next |-> next, res |-> join(joined, next)])
          /\ iter' = i + 1
    /\ UNCHANGED <<tokens, procmacro2_semver_exempt, pc, result>>

\* The for loop ends when the iterator is exhausted.
FoldEnd ==
    /\ pc = "strategy"
    /\ procmacro2_semver_exempt
    /\ iter_next(tokens, iter) = 0
    /\ iter' = Len(tokens) + 1
    /\ pc' = "return"
    /\ UNCHANGED <<tokens, procmacro2_semver_exempt, joined, result, joinLog>>

\* #[cfg(not(procmacro2_semver_exempt))] { joined = joined; }
FirstOnly ==
    /\ pc = "strategy"
    /\ ~procmacro2_semver_exempt
    /\ joined' = first_only(joined, tokens)
    /\ pc' = "return"
    /\ UNCHANGED <<tokens, procmacro2_semver_exempt, iter, result, joinLog>>

\* The tail expression `joined`.
Return ==
    /\ pc = "return"
    /\ result' = joined
    /\ pc' = "done"
    /\ UNCHANGED <<tokens, procmacro2_semver_exempt, iter, joined, joinLog>>

Next == First \/ FoldStep \/ FoldEnd \/ FirstOnly \/ Return

Spec == Init /\ [][Next]_vars

\* The call runs to completion once started: nothing else is scheduled.
FairSpec == Spec /\ WF_vars(Next)

----------------------------------------------------------------------------
(* Vocabulary of the properties. *)

\* A degenerate span: its signature is the reserved empty range 0..0.
Degenerate(s) == s.lo = 0 /\ s.hi = 0

NotDegenerate(s) == ~Degenerate(s)

\* The token spans that carry a real location, in textual order.
RealSpans(toks) == SelectSeq(toks, NotDegenerate)

Reverse(s) == [i \in 1..Len(s) |-> s[Len(s) + 1 - i]]

\* r contains s.
Covers(r, s) == r.file = s.file /\ r.lo <= s.lo /\ s.hi <= r.hi

Done == pc = "done"

\* Left-to-right fold of join over a non-empty sequence of spans, a refused
\* pair leaving the accumulator as it was.
RECURSIVE FoldLeft(_)
FoldLeft(s) ==
    IF Len(s) = 1 THEN s[1]
    ELSE LET acc == FoldLeft(SubSeq(s, 1, Len(s) - 1))
             r == join(acc, s[Len(s)])
         IN IF r = None THEN acc ELSE r[1]

SameFile(s) == \A i, j \in 1..Len(s) : s[i].file = s[j].file

\* The smallest span enclosing every span of a non-empty one-file sequence.
Hull(s) ==
    [file |-> s[1].file,
     lo |-> CHOOSE l \in {s[i].lo : i \in 1..Len(s)} :
                \A i \in 1..Len(s) : l <= s[i].lo,
     hi |-> CHOOSE h \in {s[i].hi : i \in 1..Len(s)} :
                \A i \in 1..Len(s) : h >= s[i].hi]

JoinCommutative == \A a, b \in Span : join(a, b) = join(b, a)

Refused(k) == joinLog[k].res = None

ExampleTokens == <<Sp(1, 0, 0), Sp(1, 5, 10), Sp(1, 10, 15)>>

InterleavedTokens == <<Sp(1, 5, 10), Sp(1, 0, 0), Sp(1, 10, 15)>>

----------------------------------------------------------------------------
\* C1: for a node with at least one token, span() returns a span that
\* contains the span of every token of the node; only an empty node gets the
\* call-site span.
C1_CoversEveryToken ==
    Done =>
        IF Len(tokens) = 0 THEN result = CallSite
        ELSE /\ \A i \in 1..Len(tokens) : Covers(result, tokens[i])
             /\ result # CallSite

\* C2: a node with no tokens, or with only degenerate tokens, yields exactly
\* the call-site span under both strategies, no join is attempted and the
\* aggregation stage is never entered.
C2_SentinelForEmpty ==
    RealSpans(tokens) = <<>> =>
        /\ joinLog = <<>>
        /\ pc \in {"start", "done"}
        /\ Done => result = CallSite

C2_Witness ==
    /\ Done
    /\ Len(tokens) >= 2
    /\ RealSpans(tokens) = <<>>
    /\ \E i \in 1..Len(tokens) : tokens[i] # CallSite
    /\ result = CallSite

\* C3: a node of a single non-degenerate token with span S yields S itself
\* under both strategies, without any join.
C3_SingleToken ==
    (Done /\ Len(tokens) = 1 /\ NotDegenerate(tokens[1])) =>
        /\ result = tokens[1]
        /\ result # CallSite
        /\ joinLog = <<>>

C3_Witness ==
    /\ Done
    /\ tokens = <<Sp(1, 5, 10)>>
    /\ result = Sp(1, 5, 10)

\* C4: under the join-capable strategy the result is the left-to-right fold
\* of join over the non-degenerate spans starting from the first of them;
\* [(0,0), (5,10), (10,15)] yields (5,15); when no join is refused the result
\* encloses all non-degenerate spans.
C4_JoinFold ==
    (Done /\ procmacro2_semver_exempt /\ RealSpans(tokens) # <<>>) =>
        /\ result = FoldLeft(RealSpans(tokens))
        /\ tokens = ExampleTokens => result = Sp(1, 5, 15)
        /\ (\A k \in 1..Len(joinLog) : ~Refused(k)) =>
               result = Hull(RealSpans(tokens))

C4_Witness ==
    /\ Done
    /\ procmacro2_semver_exempt
    /\ tokens = ExampleTokens
    /\ result = Sp(1, 5, 15)
    /\ Len(joinLog) = 1

\* C5: under the first-only strategy the result is the span of the first
\* non-degenerate token, whatever follows it; [(0,0), (5,10), (10,15)] yields
\* (5,10); a leading degenerate span is never returned.
C5_FirstOnly ==
    (Done /\ ~procmacro2_semver_exempt /\ RealSpans(tokens) # <<>>) =>
        /\ result = RealSpans(tokens)[1]
        /\ NotDegenerate(result)
        /\ joinLog = <<>>
        /\ tokens = ExampleTokens => result = Sp(1, 5, 10)

C5_Witness ==
    /\ Done
    /\ ~procmacro2_semver_exempt
    /\ tokens = ExampleTokens
    /\ result = Sp(1, 5, 10)

\* C6: the computation is total: whatever the token stream and the strategy,
\* it makes one pass (the iterator never leaves the stream, at most one join
\* per token), every control point is one of the function's, the value held
\* is a span, and the call eventually returns.
C6_Total ==
    /\ [](/\ pc \in {"start", "strategy", "return", "done"}
          /\ iter \in 1..(Len(tokens) + 1)
          /\ Len(joinLog) < Max(1, Len(tokens))
          /\ joined \in Span
          /\ result \in Span)
    /\ <>Done

C6_Witness ==
    /\ Done
    /\ procmacro2_semver_exempt
    /\ Len(tokens) = MaxLen
    /\ Len(joinLog) = MaxLen - 1
    /\ \E k \in 1..Len(joinLog) : Refused(k)

\* C8: in the join-capable fold, a step whose join is refused leaves the
\* accumulator as it was and stays in the fold, moving past the refused span;
\* a step whose join succeeds, also after earlier refusals, installs the
\* joined span.
C8_RefusalAbsorbed ==
    [][(pc = "strategy" /\ procmacro2_semver_exempt
            /\ iter_next(tokens, iter) # 0) =>
        LET i == iter_next(tokens, iter)
            next == tokens[i]
        IN /\ pc' = "strategy"
           /\ iter' = i + 1
           /\ result' = result
           /\ IF joined.file # next.file
              THEN joined' = joined /\ joined' # CallSite /\ joined' # next
              ELSE joined' = Hull(<<joined, next>>)]_vars

C8_Witness ==
    /\ Done
    /\ procmacro2_semver_exempt
    /\ Len(joinLog) = 2
    /\ Refused(1)
    /\ ~Refused(2)
    /\ result = joinLog[2].res[1]
    /\ result # joinLog[1].acc

\* C9: filtering precedes aggregation and keeps the order: the result on a
\* token stream is the result on that stream without its degenerate tokens;
\* no degenerate span is ever an argument of join; (5,10), degenerate,
\* (10,15) joins to (5,15).
C9_FilterBeforeFold ==
    /\ \A k \in 1..Len(joinLog) :
           NotDegenerate(joinLog[k].acc) /\ NotDegenerate(joinLog[k].next)
    /\ Done =>
        /\ result = join_spans(RealSpans(tokens), procmacro2_semver_exempt)
        /\ (tokens = InterleavedTokens /\ procmacro2_semver_exempt) =>
               result = Sp(1, 5, 15)

C9_Witness ==
    /\ Done
    /\ procmacro2_semver_exempt
    /\ tokens = InterleavedTokens
    /\ result = Sp(1, 5, 15)
    /\ Len(joinLog) = 1

\* The spans handed to join are the non-degenerate spans after the first, in
\* textual order.
InTextualOrder ==
    (Done /\ procmacro2_semver_exempt /\ RealSpans(tokens) # <<>>) =>
        [k \in 1..Len(joinLog) |-> joinLog[k].next] = Tail(RealSpans(tokens))

\* C10 as stated: the fold runs in textual order and, join being
\* commutative, the join-capable result on a stream equals the result on the
\* reversed stream.
C10_ReversalAsStated ==
    /\ InTextualOrder
    /\ (JoinCommutative /\ Done /\ procmacro2_semver_exempt) =>
           result = join_spans(Reverse(tokens), TRUE)

\* C10 amended: the fold runs in textual order and, join being commutative,
\* the join-capable result on a stream equals the result on the reversed
\* stream provided no two non-degenerate spans of the stream are in
\* different files (no join among them is refused).
C10_ReversalSameFile ==
    /\ InTextualOrder
    /\ (JoinCommutative /\ Done /\ procmacro2_semver_exempt
            /\ SameFile(RealSpans(tokens))) =>
           result = join_spans(Reverse(tokens), TRUE)

C10_Witness ==
    /\ Done
    /\ procmacro2_semver_exempt
    /\ tokens = <<Sp(1, 10, 15), Sp(2, 0, 0), Sp(1, 0, 10)>>
    /\ result = Sp(1, 0, 15)
    /\ result = join_spans(Reverse(tokens), TRUE)

====
